---- MODULE Spec2Model ----
(***************************************************************************)
(* Model of .github/scripts/update_gp_endoflife.py: the version parser,    *)
(* the feed loader, the document parser, the updater and main().           *)
(* Texts are TLA+ strings, handled character by character with SubSeq.     *)
(***************************************************************************)
EXTENDS Integers, Sequences, FiniteSets, TLC

(***************************************************************************)
(* Text primitives.                                                        *)
(***************************************************************************)
\* Python's None; an optional text is None or Some(text)
None == <<>>

Some(x) == <<x>>

\* s[i] (1-based), "" outside the text
Ch(s, i) == IF i >= 1 /\ i <= Len(s) THEN SubSeq(s, i, i) ELSE ""

\* the literal lit occurs in s at position i
StartsAt(s, i, lit) ==
    /\ i >= 1
    /\ i + Len(lit) - 1 <= Len(s)
    /\ SubSeq(s, i, i + Len(lit) - 1) = lit

\* s[i:]
From(s, i) == SubSeq(s, i, Len(s))

\* the least position of a set of positions, 0 for the empty set
First(positions) ==
    IF positions = {} THEN 0
    ELSE CHOOSE p \in positions : \A q \in positions : p <= q

\* regex \d (ASCII digits)
Digit == {"0", "1", "2", "3", "4", "5", "6", "7", "8", "9"}

DigitVal ==
    [c \in Digit |->
        CASE c = "0" -> 0 [] c = "1" -> 1 [] c = "2" -> 2 [] c = "3" -> 3
          [] c = "4" -> 4 [] c = "5" -> 5 [] c = "6" -> 6 [] c = "7" -> 7
          [] c = "8" -> 8 [] c = "9" -> 9]

\* regex \s / str.strip() whitespace
Space == {" ", "\t", "\n", "\r", "\f"}

\* regex \d* from position i: the position after the longest run of digits
RECURSIVE SpanDigits(_, _)
SpanDigits(s, i) == IF Ch(s, i) \in Digit THEN SpanDigits(s, i + 1) ELSE i

\* int(s[a..b]) for a run of digits
RECURSIVE ToInt(_, _, _)
ToInt(s, a, b) == IF b < a THEN 0 ELSE ToInt(s, a, b - 1) * 10 + DigitVal[Ch(s, b)]

\* regex $ without MULTILINE: at the end, or just before a final newline
AtDollar(s, i) == i = Len(s) + 1 \/ (i = Len(s) /\ Ch(s, i) = "\n")

(***************************************************************************)
(* parse_version, get_release_cycle                                        *)
(***************************************************************************)
\* re.match(r"(\d+)\.(\d+)\.(\d+)(?:-c(\d+))?$", version_str)
parse_version(version_str) ==
    LET s  == version_str
        e1 == SpanDigits(s, 1)
        e2 == SpanDigits(s, e1 + 1)
        e3 == SpanDigits(s, e2 + 1)
        e4 == SpanDigits(s, e3 + 2)
        triple == /\ e1 > 1 /\ Ch(s, e1) = "."
                  /\ e2 > e1 + 1 /\ Ch(s, e2) = "."
                  /\ e3 > e2 + 1
        suffix == StartsAt(s, e3, "-c") /\ e4 > e3 + 2 /\ AtDollar(s, e4)
    IN  IF ~triple THEN None
        ELSE IF suffix
             THEN << ToInt(s, 1, e1 - 1), ToInt(s, e1 + 1, e2 - 1),
                     ToInt(s, e2 + 1, e3 - 1), ToInt(s, e3 + 2, e4 - 1) >>
        ELSE IF AtDollar(s, e3)
             THEN << ToInt(s, 1, e1 - 1), ToInt(s, e1 + 1, e2 - 1),
                     ToInt(s, e2 + 1, e3 - 1), 0 >>
        ELSE None

\* a >= b in place of a > b
RECURSIVE TupleGE(_, _)
TupleGE(a, b) ==
    IF b = <<>> THEN TRUE
    ELSE IF a = <<>> THEN FALSE
    ELSE IF Head(a) # Head(b) THEN Head(a) > Head(b)
    ELSE TupleGE(Tail(a), Tail(b))

\* a < b in place of a > b
RECURSIVE TupleLT(_, _)
TupleLT(a, b) ==
    IF b = <<>> THEN FALSE
    ELSE IF a = <<>> THEN TRUE
    ELSE IF Head(a) # Head(b) THEN Head(a) < Head(b)
    ELSE TupleLT(Tail(a), Tail(b))

\* Python's tuple comparison a > b on tuples of integers
RECURSIVE TupleGT(_, _)
TupleGT(a, b) ==
    IF a = <<>> THEN FALSE
    ELSE IF b = <<>> THEN TRUE
    ELSE IF Head(a) # Head(b) THEN Head(a) > Head(b)
    ELSE TupleGT(Tail(a), Tail(b))

\* re.match(r"(\d+\.\d+)", version_str)
get_release_cycle(version_str) ==
    LET s  == version_str
        e1 == SpanDigits(s, 1)
        e2 == SpanDigits(s, e1 + 1)
    IN  IF e1 > 1 /\ Ch(s, e1) = "." /\ e2 > e1 + 1
        THEN Some(SubSeq(s, 1, e2 - 1))
        ELSE None

(***************************************************************************)
(* datetime.strptime(..., "%Y/%m/%d %H:%M:%S").strftime("%Y-%m-%d")        *)
(***************************************************************************)
\* the position after the longest run of whitespace from position i
RECURSIVE SpanSpace(_, _)
SpanSpace(s, i) == IF Ch(s, i) \in Space THEN SpanSpace(s, i + 1) ELSE i

\* str(n) for n >= 0
RECURSIVE IntToStr(_)
IntToStr(n) ==
    LET d == CHOOSE c \in Digit : DigitVal[c] = n % 10
    IN  IF n < 10 THEN d ELSE IntToStr(n \div 10) \o d

\* zero padding to a width of w digits
RECURSIVE ZeroPad(_, _)
ZeroPad(str, w) == IF Len(str) >= w THEN str ELSE ZeroPad("0" \o str, w)

DaysInMonth(y, m) ==
    IF m = 2
    THEN IF (y % 4 = 0 /\ y % 100 # 0) \/ y % 400 = 0 THEN 29 ELSE 28
    ELSE IF m \in {4, 6, 9, 11} THEN 30 ELSE 31

\* a one- or two-digit field at [a, e) with a value in lo..hi
NumField(s, a, e, lo, hi) ==
    /\ e - a \in {1, 2}
    /\ ToInt(s, a, e - 1) >= lo
    /\ ToInt(s, a, e - 1) <= hi

\* strptime: <<year, month, day>>, or None where Python raises ValueError.
\* The year is four digits; month, day, hour, minute and second are one or two
\* digits in range; the blank of the format stands for one or more whitespace
\* characters; nothing may follow; a second of 60 or 61 matches the format
\* and is then refused by datetime, like a day the month does not have.
strptime(s) ==
    LET mo == 6
        moE == SpanDigits(s, mo)
        dy == moE + 1
        dyE == SpanDigits(s, dy)
        hh == SpanSpace(s, dyE)
        hhE == SpanDigits(s, hh)
        mi == hhE + 1
        miE == SpanDigits(s, mi)
        se == miE + 1
        seE == SpanDigits(s, se)
        shape ==
            /\ SpanDigits(s, 1) >= 5 /\ Ch(s, 5) = "/"
            /\ NumField(s, mo, moE, 1, 12) /\ Ch(s, moE) = "/"
            /\ NumField(s, dy, dyE, 1, 31)
            /\ hh > dyE
            /\ NumField(s, hh, hhE, 0, 23) /\ Ch(s, hhE) = ":"
            /\ NumField(s, mi, miE, 0, 59) /\ Ch(s, miE) = ":"
            /\ NumField(s, se, seE, 0, 61)
            /\ seE = Len(s) + 1
        y == ToInt(s, 1, 4)
        m == ToInt(s, mo, moE - 1)
        d == ToInt(s, dy, dyE - 1)
    IN  IF shape /\ y >= 1 /\ d <= DaysInMonth(y, m) /\ ToInt(s, se, seE - 1) <= 59
        THEN <<y, m, d>>
        ELSE None

\* strftime("%Y-%m-%d"): the C library does not pad the year
strftime(date) ==
    IntToStr(date[1]) \o "-" \o ZeroPad(IntToStr(date[2]), 2)
        \o "-" \o ZeroPad(IntToStr(date[3]), 2)

(***************************************************************************)
(* load_json_versions                                                      *)
(***************************************************************************)
\* an exception leaves the function: no map is returned
LoadFault == [fault |-> TRUE, cycles |-> <<>>]

\* the body of "for entry in entries", from entry i on, with the map so far
RECURSIVE LoadEntries(_, _, _)
LoadEntries(entries, i, cycles) ==
    IF i > Len(entries) THEN [fault |-> FALSE, cycles |-> cycles]
    ELSE
    LET entry == entries[i] IN
    IF "version" \notin DOMAIN entry THEN LoadFault
    ELSE
    LET version_str == entry["version"]
        parsed == parse_version(version_str)
        match == get_release_cycle(version_str)
        cycle == match[1]
    IN
    IF parsed = None THEN LoadEntries(entries, i + 1, cycles)
    ELSE IF match = None THEN LoadEntries(entries, i + 1, cycles)
    ELSE IF "released-on" \notin DOMAIN entry THEN LoadFault
    ELSE IF strptime(entry["released-on"]) = None THEN LoadFault
    ELSE
    LET released_date == strftime(strptime(entry["released-on"])) IN
    IF \/ cycle \notin DOMAIN cycles
       \/ TupleGT(parsed, parse_version(cycles[cycle].version))
    THEN LoadEntries(entries, i + 1,
             (cycle :> [version |-> version_str, date |-> released_date]) @@ cycles)
    ELSE LoadEntries(entries, i + 1, cycles)

\* the file is [ok, entries]: ok is whether raw.decode and json.loads succeed
\* (lines 46-51), entries is the list json.loads returns
load_json_versions(json_file) ==
    IF ~json_file.ok THEN LoadFault ELSE LoadEntries(json_file.entries, 1, <<>>)

(***************************************************************************)
(* parse_md_releases                                                       *)
(***************************************************************************)
\* the first position >= i where lit occurs in s, 0 if there is none
FindLit(s, i, lit) ==
    First({ j \in i..(Len(s) - Len(lit) + 1) : StartsAt(s, j, lit) })

\* regex ^ under re.MULTILINE
LineStart(s, p) == p = 1 \/ Ch(s, p - 1) = "\n"

\* (?=\n  - releaseCycle:|\n---)
Lookahead(s, q) == StartsAt(s, q, "\n  - releaseCycle:") \/ StartsAt(s, q, "\n---")

\* .*? under re.DOTALL, then the lookahead: the first position >= q where the
\* lookahead holds, 0 if there is none
FindLookahead(s, q) == First({ j \in q..Len(s) : Lookahead(s, j) })

\* the block pattern matched at position p: the cycle and the position after
\* the match, or None
BlockMatch(s, p) ==
    LET open == "  - releaseCycle: \""
        a == p + Len(open)
        quote == FindLit(s, a, "\"")
        e == FindLookahead(s, quote + 1)
    IN  IF /\ LineStart(s, p) /\ StartsAt(s, p, open)
           /\ quote > a /\ e > 0
        THEN [cycle |-> SubSeq(s, a, quote - 1), end |-> e]
        ELSE None

\* str.strip(chars)
RECURSIVE LStrip(_, _)
LStrip(s, chars) == IF s # "" /\ Ch(s, 1) \in chars THEN LStrip(Tail(s), chars) ELSE s

RECURSIVE RStrip(_, _)
RStrip(s, chars) ==
    IF s # "" /\ Ch(s, Len(s)) \in chars
    THEN RStrip(SubSeq(s, 1, Len(s) - 1), chars)
    ELSE s

Strip(s, chars) == RStrip(LStrip(s, chars), chars)

\* the position after the longest run of characters other than newline
SpanLine(s, i) == First({ j \in i..(Len(s) + 1) : Ch(s, j) \in {"", "\n"} })

\* re.search(rf"    {field}: (.+)", text): the start of the first match from
\* position i on, 0 if there is none
SearchField(text, i, lit) ==
    First({ j \in i..(Len(text) - Len(lit)) :
               StartsAt(text, j, lit) /\ Ch(text, j + Len(lit)) # "\n" })

\* extract(field, text)
extract(field, text) ==
    LET lit == "    " \o field \o ": "
        m == SearchField(text, 1, lit)
        g == m + Len(lit)
        val == Strip(SubSeq(text, g, SpanLine(text, g) - 1), Space)
    IN  IF m = 0 THEN None ELSE Some(Strip(val, {"\""}))

\* pattern.finditer(content) from position p on; the offsets are Python's
RECURSIVE FindBlocks(_, _)
FindBlocks(content, from) ==
    LET p == First({ j \in from..Len(content) : BlockMatch(content, j) # None }) IN
    IF p = 0 THEN <<>>
    ELSE
    LET match == BlockMatch(content, p)
        block == SubSeq(content, p, match.end - 1)
    IN
    << [releaseCycle |-> match.cycle,
        latest |-> extract("latest", block),
        latestReleaseDate |-> extract("latestReleaseDate", block),
        _start |-> p - 1,
        _end |-> match.end - 1,
        _text |-> block] >> \o FindBlocks(content, match.end)

parse_md_releases(content) == FindBlocks(content, 1)

(***************************************************************************)
(* apply_updates                                                           *)
(***************************************************************************)
\* the position after the longest run of non-whitespace characters
SpanNonSpace(s, i) == First({ j \in i..(Len(s) + 1) : Ch(s, j) \in Space \cup {""} })

\* the first match of (    latest: )"[^"]*" from position i on: its start and
\* the position after it, or None
MatchLatest(s, i) ==
    LET lit == "    latest: \""
        m == FindLit(s, i, lit)
        close == FindLit(s, m + Len(lit), "\"")
    IN  IF m = 0 \/ close = 0 THEN None ELSE <<m, close + 1>>

\* re.sub(r'(    latest: )"[^"]*"', rf'\g<1>"{new_version}"', s), from i on
RECURSIVE SubLatest(_, _, _)
SubLatest(s, i, new_version) ==
    LET m == MatchLatest(s, i) IN
    IF m = None THEN From(s, i)
    ELSE SubSeq(s, i, m[1] - 1) \o "    latest: " \o "\"" \o new_version \o "\""
            \o SubLatest(s, m[2], new_version)

\* re.sub(r"(    latestReleaseDate: )\S+", rf"\g<1>{new_date}", s), from i on
RECURSIVE SubDate(_, _, _)
SubDate(s, i, new_date) ==
    LET lit == "    latestReleaseDate: "
        m == FindLit(s, i, lit)
        v == m + Len(lit)
        e == SpanNonSpace(s, v)
    IN  IF m = 0 THEN From(s, i)
        ELSE IF e = v THEN SubSeq(s, i, m) \o SubDate(s, m + 1, new_date)
        ELSE SubSeq(s, i, m - 1) \o lit \o new_date \o SubDate(s, e, new_date)

\* re.sub(r'(    latest: "[^"]*")', rf"\1\n    latestReleaseDate: {new_date}", s)
RECURSIVE InsertDate(_, _, _)
InsertDate(s, i, new_date) ==
    LET m == MatchLatest(s, i) IN
    IF m = None THEN From(s, i)
    ELSE SubSeq(s, i, m[2] - 1) \o "\n    latestReleaseDate: " \o new_date
            \o InsertDate(s, m[2], new_date)

\* the rewritten text of a block that qualified
UpdateBlock(block, new_version, new_date) ==
    LET updated_block == SubLatest(block, 1, new_version) IN
    IF FindLit(updated_block, 1, "    latestReleaseDate:") # 0
    THEN SubDate(updated_block, 1, new_date)
    ELSE InsertDate(updated_block, 1, new_date)

\* the releases in document order, where the code reverses them
unreversed(seq) == seq

\* reversed(releases)
reversed(seq) == [i \in 1..Len(seq) |-> seq[Len(seq) + 1 - i]]

\* the body of "for release in reversed(releases)", from the k-th release of
\* the loop on, with the content and the changes so far; fault is Python's
\* TypeError on comparing a tuple with None
RECURSIVE ApplyFrom(_, _, _, _, _)
ApplyFrom(content, changes, releases, k, json_cycles) ==
    IF k > Len(releases)
    THEN [fault |-> FALSE, content |-> content, changes |-> changes]
    ELSE
    LET release == releases[k]
        cycle == release.releaseCycle
    IN
    IF cycle \notin DOMAIN json_cycles
    THEN ApplyFrom(content, changes, releases, k + 1, json_cycles)
    ELSE
    LET current_version == IF release.latest = None THEN "" ELSE release.latest[1]
        new_version == json_cycles[cycle].version
        new_date == json_cycles[cycle].date
        current_parsed == IF current_version # ""
                          THEN parse_version(current_version)
                          ELSE <<0, 0, 0, 0>>
        new_parsed == parse_version(new_version)
    IN
    IF new_parsed = None
    THEN ApplyFrom(content, changes, releases, k + 1, json_cycles)
    ELSE IF current_parsed = None
    THEN [fault |-> TRUE, content |-> content, changes |-> changes]
    ELSE IF ~TupleGT(new_parsed, current_parsed)
    THEN ApplyFrom(content, changes, releases, k + 1, json_cycles)
    ELSE
    ApplyFrom(SubSeq(content, 1, release._start)
                  \o UpdateBlock(release._text, new_version, new_date)
                  \o From(content, release._end + 1),
              Append(changes, cycle \o ": " \o current_version \o " -> " \o new_version),
              releases, k + 1, json_cycles)

apply_updates(content, releases, json_cycles) ==
    ApplyFrom(content, <<>>, reversed(releases), 1, json_cycles)

(***************************************************************************)
(* Inputs: feed files and registry documents.                              *)
(***************************************************************************)
\* the most feed entries and the most release blocks of an input
MaxEntries == 2

MaxBlocks == 2

\* every sequence over S of length at most n
SeqsUpTo(S, n) == UNION {[1..k -> S] : k \in 0..n}

FeedEntry(version, released) == ("version" :> version) @@ ("released-on" :> released)

FeedEntries ==
    { FeedEntry("6.3.3-c842", "2025/12/17 00:00:00"),
      FeedEntry("6.3.3", "2025/10/01 08:30:00"),
      FeedEntry("6.3.2-c999", "2025/9/5 1:2:3"),
      FeedEntry("6.3.03", "2025/10/02 00:00:00"),
      FeedEntry("6.3.10", "2026/01/20 00:00:00"),
      FeedEntry("6.2.9", "2025/08/15 12:00:00"),
      FeedEntry("6.3.3\n", "2025/10/03 00:00:00"),
      FeedEntry("6.3.4x", "2025/11/11 00:00:00"),
      FeedEntry("not-a-version", "never"),
      FeedEntry("6.2.8", "2025-08-01"),
      ("released-on" :> "2025/12/17 00:00:00") }

FeedFile(entries) == [ok |-> TRUE, entries |-> entries]

\* a file that does not decode or is not JSON
BadFeedFile == [ok |-> FALSE, entries |-> <<>>]

\* a release block: the cycle line, a line before the fields, the latest
\* line, the latestReleaseDate line and a line after them
Block(cycle, latestLine, dateLine) ==
    "  - releaseCycle: \"" \o cycle \o "\"\n    eol: false"
        \o latestLine \o dateLine \o "\n    link: x"

DateLine == "\n    latestReleaseDate: 2025-11-01"

Blocks ==
    { Block("6.3", "\n    latest: \"6.3.2\"", DateLine),
      Block("6.3", "\n    latest: \"6.3.2\"", ""),
      Block("6.3", "\n    latest: \"6.3.3-c842\"", "\n    latestReleaseDate: 2025-12-17"),
      Block("6.2", "\n    latest: \"6.2.8-c10\"", DateLine),
      Block("6.3", "", DateLine),
      Block("6.3", "\n    latest: 6.3.2", ""),
      Block("6.2", "\n    latest: \"unknown\"", "\n    latestReleaseDate: unknown"),
      Block("6.3", "\n    latest: \"6.3.1\"  # lts", ""),
      Block("6.1", "\n    latest: \"6.1.5\"", DateLine) }

\* what follows the last block: the end of the front matter, nothing, or a
\* line that only starts with ---
Tails == { "\n---\nbody\n", "\n", "\n---x\n" }

RECURSIVE JoinBlocks(_)
JoinBlocks(blocks) ==
    IF blocks = <<>> THEN "" ELSE "\n" \o Head(blocks) \o JoinBlocks(Tail(blocks))

Document(blocks, tail) ==
    [exists |-> TRUE, text |-> "---\nreleases:" \o JoinBlocks(blocks) \o tail]

MissingDocument == [exists |-> FALSE, text |-> ""]

\* runs that vary the document, under a few feeds
DocumentFeeds ==
    { FeedFile(<< FeedEntry("6.3.3-c842", "2025/12/17 00:00:00") >>),
      FeedFile(<< FeedEntry("6.3.3", "2025/10/01 08:30:00"),
                  FeedEntry("6.2.9", "2025/08/15 12:00:00") >>) }

Documents ==
    { Document(blocks, tail) : blocks \in SeqsUpTo(Blocks, MaxBlocks), tail \in Tails }

\* runs that vary the feed, under a few documents
Feeds == { FeedFile(entries) : entries \in SeqsUpTo(FeedEntries, MaxEntries) }

FeedDocuments ==
    { Document(<< Block("6.3", "\n    latest: \"6.3.2\"", DateLine),
                  Block("6.2", "\n    latest: \"6.2.9\"", DateLine) >>, "\n---\nbody\n"),
      MissingDocument }

Inputs ==
    (DocumentFeeds \X Documents) \cup (Feeds \X FeedDocuments)
        \cup {<<BadFeedFile, Document(<<>>, "\n---\n")>>}

(***************************************************************************)
(* main                                                                    *)
(***************************************************************************)
VARIABLES
    pc,                \* where main is: load, read, parse, apply, report,
                       \* exit0 (sys.exit(0) or the end), fault (a traceback)
    json_file,         \* the file at args.json
    md_file,           \* the file at args.md
    output_file,       \* the file at args.output
    json_cycles,
    content,
    releases,
    updated_content,
    changes,
    stdout

vars == << pc, json_file, md_file, output_file, json_cycles, content, releases,
           updated_content, changes, stdout >>

NoFile == [exists |-> FALSE, text |-> ""]

Init ==
    /\ \E input \in Inputs : json_file = input[1] /\ md_file = input[2]
    /\ pc = "load"
    /\ output_file = NoFile
    /\ json_cycles = <<>>
    /\ content = ""
    /\ releases = <<>>
    /\ updated_content = ""
    /\ changes = <<>>
    /\ stdout = <<>>

\* json_cycles = load_json_versions(args.json)
LoadJsonVersions ==
    /\ pc = "load"
    /\ LET loaded == load_json_versions(json_file) IN
        /\ pc' = IF loaded.fault THEN "fault" ELSE "read"
        /\ json_cycles' = loaded.cycles
    /\ UNCHANGED << json_file, md_file, output_file, content, releases,
                    updated_content, changes, stdout >>

\* with open(args.md) as f: content = f.read()
ReadDocument ==
    /\ pc = "read"
    /\ pc' = IF md_file.exists THEN "parse" ELSE "fault"
    /\ content' = md_file.text
    /\ UNCHANGED << json_file, md_file, output_file, json_cycles, releases,
                    updated_content, changes, stdout >>

\* releases = parse_md_releases(content)
ParseMdReleases ==
    /\ pc = "parse"
    /\ releases' = parse_md_releases(content)
    /\ pc' = "apply"
    /\ UNCHANGED << json_file, md_file, output_file, json_cycles, content,
                    updated_content, changes, stdout >>

\* updated_content, changes = apply_updates(content, releases, json_cycles)
ApplyUpdates ==
    /\ pc = "apply"
    /\ LET applied == apply_updates(content, releases, json_cycles) IN
        /\ pc' = IF applied.fault THEN "fault" ELSE "report"
        /\ updated_content' = IF applied.fault THEN updated_content ELSE applied.content
        /\ changes' = IF applied.fault THEN changes ELSE applied.changes
    /\ UNCHANGED << json_file, md_file, output_file, json_cycles, content,
                    releases, stdout >>

\* if not changes: print("NO_UPDATES"); sys.exit(0)
NoUpdates ==
    /\ pc = "report"
    /\ changes = <<>>
    /\ stdout' = Append(stdout, "NO_UPDATES")
    /\ pc' = "exit0"
    /\ UNCHANGED << json_file, md_file, output_file, json_cycles, content,
                    releases, updated_content, changes >>

\* write the output file, print UPDATES_FOUND and the changes
WriteUpdates ==
    /\ pc = "report"
    /\ changes # <<>>
    /\ output_file' = [exists |-> TRUE, text |-> updated_content]
    /\ stdout' = stdout \o <<"UPDATES_FOUND">> \o changes
    /\ pc' = "exit0"
    /\ UNCHANGED << json_file, md_file, json_cycles, content, releases,
                    updated_content, changes >>

Next ==
    \/ LoadJsonVersions
    \/ ReadDocument
    \/ ParseMdReleases
    \/ ApplyUpdates
    \/ NoUpdates
    \/ WriteUpdates

Spec == Init /\ [][Next]_vars

(***************************************************************************)
(* Vocabulary of the properties.                                           *)
(***************************************************************************)
\* main has the feed map and has not failed
Loaded == pc \in {"read", "parse", "apply", "report", "exit0"}

\* s is one or more digits
AllDigits(s) == s # "" /\ \A i \in 1..Len(s) : Ch(s, i) \in Digit

\* s is digits "." digits "." digits
DottedTriple(s) ==
    \E i, j \in 1..Len(s) :
        /\ i < j /\ Ch(s, i) = "." /\ Ch(s, j) = "."
        /\ AllDigits(SubSeq(s, 1, i - 1))
        /\ AllDigits(SubSeq(s, i + 1, j - 1))
        /\ AllDigits(From(s, j + 1))

\* the version grammar D.D.D(-cD)?, with nothing after it
InGrammar(s) ==
    \/ DottedTriple(s)
    \/ \E k \in 1..Len(s) :
        /\ StartsAt(s, k, "-c")
        /\ DottedTriple(SubSeq(s, 1, k - 1))
        /\ AllDigits(From(s, k + 2))

\* the order by major, then minor, then patch, then build
VersionLess(a, b) ==
    \E i \in 1..4 : a[i] < b[i] /\ \A j \in 1..(i - 1) : a[j] = b[j]

VersionLE(a, b) == a = b \/ VersionLess(a, b)

\* the version strings of the feed
FeedVersions ==
    { json_file.entries[i]["version"] :
        i \in { j \in 1..Len(json_file.entries) : "version" \in DOMAIN json_file.entries[j] } }

\* C9: parse_version returns a tuple exactly for the strings of the grammar
\* D.D.D(-cD)? with nothing after the match (a trailing newline included), and
\* the tuples order versions by major, minor, patch, then build.
VersionGrammarAndOrder ==
    pc # "load" =>
        /\ \A v \in FeedVersions : (parse_version(v) # None) <=> InGrammar(v)
        /\ \A v, w \in FeedVersions :
            parse_version(v) # None /\ parse_version(w) # None =>
                (TupleGT(parse_version(v), parse_version(w))
                    <=> VersionLess(parse_version(w), parse_version(v)))
        /\ parse_version("6.3.3-c842") = <<6, 3, 3, 842>>
        /\ parse_version("6.3.3") = <<6, 3, 3, 0>>
        /\ TupleGT(parse_version("6.3.3-c842"), parse_version("6.3.3"))
        /\ TupleGT(parse_version("6.3.3"), parse_version("6.3.2-c999"))

\* the entries of the feed whose version parses, and their cycles
Parseable ==
    { i \in 1..Len(json_file.entries) :
        /\ "version" \in DOMAIN json_file.entries[i]
        /\ parse_version(json_file.entries[i]["version"]) # None }

EntryVersion(i) == parse_version(json_file.entries[i]["version"])

\* the first two dot-separated components of a parseable version
EntryCycle(i) ==
    LET v == json_file.entries[i]["version"]
        dot == FindLit(v, FindLit(v, 1, ".") + 1, ".")
    IN  SubSeq(v, 1, dot - 1)

\* entry i is the first among the entries of its cycle with the greatest version
FirstMaximal(i) ==
    \A j \in Parseable :
        EntryCycle(j) = EntryCycle(i) =>
            /\ VersionLE(EntryVersion(j), EntryVersion(i))
            /\ (j < i => EntryVersion(j) # EntryVersion(i))

\* C5: the feed map has one entry per cycle of a parseable feed entry, and it
\* is the first entry of the cycle with the maximal version tuple, with that
\* entry's version string and date.
FeedReduction ==
    Loaded =>
        /\ DOMAIN json_cycles = { EntryCycle(i) : i \in Parseable }
        /\ \A i \in Parseable :
            FirstMaximal(i) =>
                json_cycles[EntryCycle(i)] =
                    [version |-> json_file.entries[i]["version"],
                     date |-> strftime(strptime(json_file.entries[i]["released-on"]))]

\* a feed where two entries of a cycle share the greatest version under
\* different strings, and the map was built
FeedReductionWitness ==
    /\ Loaded
    /\ \E i, j \in Parseable :
        /\ i < j
        /\ FirstMaximal(i)
        /\ EntryCycle(j) = EntryCycle(i)
        /\ EntryVersion(j) = EntryVersion(i)
        /\ json_file.entries[j]["version"] # json_file.entries[i]["version"]
        /\ json_cycles[EntryCycle(i)].version = json_file.entries[i]["version"]

\* the faults the design calls fatal: an undecodable feed, an entry without
\* its fields or with a malformed date, a missing document
FatalInput ==
    \/ ~json_file.ok
    \/ ~md_file.exists
    \/ \E i \in 1..Len(json_file.entries) :
        \/ DOMAIN json_file.entries[i] # {"version", "released-on"}
        \/ strptime(json_file.entries[i]["released-on"]) = None

\* the feed without the entries whose version does not parse
RECURSIVE DropUnparseable(_)
DropUnparseable(entries) ==
    IF entries = <<>> THEN <<>>
    ELSE IF "version" \in DOMAIN Head(entries)
            /\ parse_version(Head(entries)["version"]) = None
         THEN DropUnparseable(Tail(entries))
         ELSE <<Head(entries)>> \o DropUnparseable(Tail(entries))

\* C3: an unparseable version string is never fatal: the feed entry is skipped
\* and the rest of the feed is processed, the comparison of a block whose
\* latest does not parse is skipped, and the run does not end in a fault.
UnparseableNeverFatal ==
    /\ pc = "fault" => FatalInput
    /\ Loaded => json_cycles = LoadEntries(DropUnparseable(json_file.entries), 1, <<>>).cycles

\* the blocks of the returned document
NewReleases == parse_md_releases(updated_content)

\* the version a block records, a missing latest counting as 0.0.0
CurrentTuple(release) ==
    IF release.latest = None \/ release.latest = Some("")
    THEN <<0, 0, 0, 0>>
    ELSE parse_version(release.latest[1])

FeedTuple(release) == parse_version(json_cycles[release.releaseCycle].version)

\* the feed has a version for the block's cycle, strictly newer than the block's
Qualifies(release) ==
    /\ release.releaseCycle \in DOMAIN json_cycles
    /\ FeedTuple(release) # None
    /\ CurrentTuple(release) # None
    /\ VersionLess(CurrentTuple(release), FeedTuple(release))

\* the feed has no version for the block's cycle, or one that is not newer
NotNewer(release) ==
    \/ release.releaseCycle \notin DOMAIN json_cycles
    \/ /\ FeedTuple(release) # None
       /\ CurrentTuple(release) # None
       /\ VersionLE(FeedTuple(release), CurrentTuple(release))

\* the change lines of a cycle
ChangesFor(cycle) == { i \in 1..Len(changes) : StartsAt(changes[i], 1, cycle \o ": ") }

\* the positions of a set, in increasing and in decreasing order
RECURSIVE Ascending(_)
Ascending(positions) ==
    IF positions = {} THEN <<>>
    ELSE <<First(positions)>> \o Ascending(positions \ {First(positions)})

Descending(positions) == reversed(Ascending(positions))

\* the lines of a text
RECURSIVE Lines(_)
Lines(text) ==
    LET e == SpanLine(text, 1) IN
    IF e > Len(text) THEN <<text>>
    ELSE <<SubSeq(text, 1, e - 1)>> \o Lines(From(text, e + 1))

\* C1: a second run of the updater on the first run's output, under the same
\* feed, reports no change and returns the document as it is.
Idempotence ==
    pc = "report" =>
        LET second == apply_updates(updated_content, NewReleases, json_cycles) IN
        /\ ~second.fault
        /\ second.changes = <<>>
        /\ second.content = updated_content

\* C2: a block whose cycle is not in the feed, or whose feed version is less
\* than or equal to its latest, has its text unchanged in the returned
\* document and gets no change line.
NoRegression ==
    pc = "report" =>
        LET new == NewReleases IN
        /\ \A k \in 1..Len(releases) :
            NotNewer(releases[k]) =>
                /\ Len(new) = Len(releases)
                /\ new[k]._text = releases[k]._text
        /\ \A cycle \in { releases[k].releaseCycle : k \in 1..Len(releases) } :
            Cardinality(ChangesFor(cycle)) <=
                Cardinality({ k \in 1..Len(releases) :
                                /\ releases[k].releaseCycle = cycle
                                /\ ~NotNewer(releases[k]) })

\* a block with a feed version equal to or older than its latest, next to a
\* block that was updated
NoRegressionWitness ==
    /\ pc = "report"
    /\ changes # <<>>
    /\ updated_content # content
    /\ \E k \in 1..Len(releases) :
        /\ releases[k].releaseCycle \in DOMAIN json_cycles
        /\ releases[k].latest # None
        /\ NotNewer(releases[k])

\* C4: a block with a latest field and no latestReleaseDate field, under a
\* strictly newer feed version, gets one new line with the feed date right
\* after the latest line, its latest set to the feed version, and every other
\* line as it was.
MissingFieldInsertion ==
    pc = "report" =>
        \A k \in 1..Len(releases) :
            ( /\ releases[k].latest # None
              /\ releases[k].latestReleaseDate = None
              /\ Qualifies(releases[k]) ) =>
            /\ Len(NewReleases) = Len(releases)
            /\ LET old == Lines(releases[k]._text)
                   new == Lines(NewReleases[k]._text)
                   feed == json_cycles[releases[k].releaseCycle]
                   at == First({ i \in 1..Len(old) : StartsAt(old[i], 1, "    latest: ") })
               IN  /\ Len(new) = Len(old) + 1
                   /\ extract("latest", new[at]) = Some(feed.version)
                   /\ new[at + 1] = "    latestReleaseDate: " \o feed.date
                   /\ \A i \in 1..Len(old) :
                        /\ i < at => new[i] = old[i]
                        /\ i > at => new[i + 1] = old[i]

\* both inputs load: the feed decodes and reduces, the document is there
InputsLoad == ~load_json_versions(json_file).fault /\ md_file.exists

\* C6: when no block has a strictly newer feed version, main prints
\* NO_UPDATES, exits with success and writes no file; the file is written only
\* by a run that loaded both inputs and prints UPDATES_FOUND and a change.
NoOpRun ==
    /\ ( /\ pc \in {"exit0", "fault"}
         /\ InputsLoad
         /\ \A k \in 1..Len(releases) : ~Qualifies(releases[k]) ) =>
            /\ pc = "exit0"
            /\ stdout = <<"NO_UPDATES">>
            /\ ~output_file.exists
    /\ output_file.exists =>
            /\ InputsLoad
            /\ pc = "exit0"
            /\ Len(stdout) >= 2
            /\ stdout[1] = "UPDATES_FOUND"

\* a text with its latest values and latestReleaseDate values blanked
Mask(text) == SubDate(SubLatest(text, 1, ""), 1, "_")

RECURSIVE RemoveLit(_, _, _)
RemoveLit(s, i, lit) ==
    LET m == FindLit(s, i, lit) IN
    IF m = 0 THEN From(s, i)
    ELSE SubSeq(s, i, m - 1) \o RemoveLit(s, m + Len(lit), lit)

\* new is old but for the latest values, the latestReleaseDate values and, in
\* a block without latestReleaseDate, the inserted latestReleaseDate
SameButFields(old, new) ==
    IF FindLit(old, 1, "    latestReleaseDate:") # 0
    THEN Mask(new) = Mask(old)
    ELSE RemoveLit(Mask(new), 1, "\n    latestReleaseDate: _") = Mask(old)

\* C7: the returned document is the input but for the latest and
\* latestReleaseDate values (or the inserted latestReleaseDate) of the blocks
\* that qualified: the text before, between and after the blocks, the other
\* blocks and the rest of the qualifying blocks are the same, whatever the
\* replacements did to the length of the document.
Preservation ==
    pc = "report" =>
        LET new == NewReleases
            n == Len(releases)
        IN  /\ Len(new) = n
            /\ n = 0 => updated_content = content
            /\ n > 0 =>
                /\ SubSeq(updated_content, 1, new[1]._start)
                        = SubSeq(content, 1, releases[1]._start)
                /\ From(updated_content, new[n]._end + 1)
                        = From(content, releases[n]._end + 1)
                /\ \A k \in 1..(n - 1) :
                        SubSeq(updated_content, new[k]._end + 1, new[k + 1]._start)
                            = SubSeq(content, releases[k]._end + 1, releases[k + 1]._start)
                /\ \A k \in 1..n :
                        IF Qualifies(releases[k])
                        THEN SameButFields(releases[k]._text, new[k]._text)
                        ELSE new[k]._text = releases[k]._text

\* two blocks were rewritten and the first one changed its length
PreservationWitness ==
    /\ pc = "report"
    /\ Len(NewReleases) = Len(releases)
    /\ \E k, j \in 1..Len(releases) :
        /\ k < j
        /\ Qualifies(releases[k]) /\ Qualifies(releases[j])
        /\ Len(NewReleases[k]._text) # Len(releases[k]._text)
        /\ NewReleases[j]._text # releases[j]._text
        /\ NewReleases[j]._start # releases[j]._start

\* a line   - releaseCycle: "<cycle>" starts at position p
CycleLine(text, p) ==
    LET open == "  - releaseCycle: \""
        line == SubSeq(text, p, SpanLine(text, p) - 1)
    IN  /\ LineStart(text, p)
        /\ StartsAt(line, 1, open)
        /\ Len(line) > Len(open) + 1
        /\ FindLit(line, Len(open) + 1, "\"") = Len(line)

\* a line containing only --- starts at position p
DashLine(text, p) ==
    LineStart(text, p) /\ SubSeq(text, p, SpanLine(text, p) - 1) = "---"

\* the newline before the next cycle line or --- line after position p, 0 if
\* there is none
BlockEnd(text, p) ==
    First({ q \in (p + 1)..Len(text) :
              Ch(text, q) = "\n" /\ (CycleLine(text, q + 1) \/ DashLine(text, q + 1)) })

\* C8: parse_md_releases returns, in document order, one block for every
\* line   - releaseCycle: "<cycle>", the last one included, from that line to
\* just before the next such line or --- line, and the blocks do not overlap.
ParsingExhaustive ==
    pc = "apply" =>
        LET starts == Ascending({ p \in 1..Len(content) : CycleLine(content, p) }) IN
        /\ Len(releases) = Len(starts)
        /\ \A k \in 1..Len(releases) :
            /\ releases[k]._start = starts[k] - 1
            /\ BlockEnd(content, starts[k]) # 0 =>
                    releases[k]._end = BlockEnd(content, starts[k]) - 1
            /\ releases[k]._text = SubSeq(content, releases[k]._start + 1, releases[k]._end)
        /\ \A k, j \in 1..Len(releases) : k < j => releases[k]._end <= releases[j]._start

\* C10: every change line stands for a block that changed: there are as many
\* lines as blocks whose text differs, in reverse document order, and the
\* returned document records the feed's version and date for each.
EveryChangeIsReal ==
    pc = "report" =>
        /\ Len(NewReleases) = Len(releases)
        /\ LET changed == Descending({ k \in 1..Len(releases) :
                                NewReleases[k]._text # releases[k]._text })
           IN  /\ Len(changes) = Len(changed)
               /\ \A i \in 1..Len(changed) :
                    LET old == releases[changed[i]]
                        new == NewReleases[changed[i]]
                        feed == json_cycles[old.releaseCycle]
                    IN  /\ new.latest = Some(feed.version)
                        /\ new.latestReleaseDate = Some(feed.date)
                        /\ changes[i] = old.releaseCycle \o ": "
                               \o (IF old.latest = None THEN "" ELSE old.latest[1])
                               \o " -> " \o feed.version

====
